---- MODULE Spec2Model ----
(***************************************************************************)
(* Service selection of Harmony (app/models/services/index.ts):            *)
(* chooseServiceConfig narrows the service catalog through an ordered      *)
(* chain of filter functions, retries with a reduced chain when the        *)
(* request mixes optional and required operations, and reports why no      *)
(* service matched through the module-level noOpService object.            *)
(* Granule location (app/middleware/cmr-granule-locator.js):               *)
(* cmrGranuleLocator queries the CMR for the granules of every source of   *)
(* the operation concurrently and calls next when the queries are done or  *)
(* one of them failed.                                                     *)
(***************************************************************************)
EXTENDS Integers, Sequences, FiniteSets, TLC

(***************************************************************************)
(* Bounds of the explored inputs.                                          *)
(***************************************************************************)
MaxServices == 2
MaxMimeTypes == 1
MaxSessionServices == 1
MaxSessionRequests == 2
MaxAcceptTypes == 2
MaxBuildServices == 1

(***************************************************************************)
(* JavaScript's undefined, for optional string-valued fields.              *)
(***************************************************************************)
undefined == "undefined"

(***************************************************************************)
(* Media types.  A media type or accept pattern is a string; TypeOf and    *)
(* SubtypeOf split it at the slash.                                        *)
(***************************************************************************)
TypeOf(m) ==
  CASE m = "image/tiff" -> "image"
    [] m = "image/png" -> "image"
    [] m = "image/gif" -> "image"
    [] m = "image/*" -> "image"
    [] m = "application/x-netcdf4" -> "application"
    [] m = "*/*" -> "*"
    [] OTHER -> m

SubtypeOf(m) ==
  CASE m = "image/tiff" -> "tiff"
    [] m = "image/png" -> "png"
    [] m = "image/gif" -> "gif"
    [] m = "image/*" -> "*"
    [] m = "application/x-netcdf4" -> "x-netcdf4"
    [] m = "*/*" -> "*"
    [] OTHER -> m

\* util/content-negotiation: does the accept pattern allow the media type
isMimeTypeAccepted(mimeType, pattern) ==
  \/ pattern = "*/*"
  \/ SubtypeOf(pattern) = "*" /\ TypeOf(pattern) = TypeOf(mimeType)
  \/ pattern = mimeType

\* util/content-negotiation: is the pattern the accept-anything pattern
allowsAny(m) == m = "*/*"

(***************************************************************************)
(* util/string listToText: natural-language joining of a list.             *)
(***************************************************************************)
RECURSIVE JoinWith(_, _)
JoinWith(items, sep) ==
  IF Len(items) = 0 THEN ""
  ELSE IF Len(items) = 1 THEN items[1]
  ELSE items[1] \o sep \o JoinWith(Tail(items), sep)

listToText(items, joinWord) ==
  CASE Len(items) = 0 -> ""
    [] Len(items) = 1 -> items[1]
    [] Len(items) = 2 -> items[1] \o " " \o joinWord \o " " \o items[2]
    [] OTHER -> JoinWith(SubSeq(items, 1, Len(items) - 1), ", ")
                  \o ", " \o joinWord \o " " \o items[Len(items)]

(***************************************************************************)
(* Array helpers of the language.                                          *)
(***************************************************************************)
\* mutation: the last supported format the pattern accepts
findAccepted_last(supportedFormats, mimeType) ==
  IF \E i \in 1..Len(supportedFormats) :
       isMimeTypeAccepted(supportedFormats[i], mimeType)
  THEN supportedFormats[
         CHOOSE i \in 1..Len(supportedFormats) :
           /\ isMimeTypeAccepted(supportedFormats[i], mimeType)
           /\ \A j \in (i + 1)..Len(supportedFormats) :
                ~isMimeTypeAccepted(supportedFormats[j], mimeType)]
  ELSE undefined

\* supportedFormats.find((f) => isMimeTypeAccepted(f, mimeType)): the first
\* supported format the pattern accepts
findAccepted(supportedFormats, mimeType) ==
  IF \E i \in 1..Len(supportedFormats) :
       isMimeTypeAccepted(supportedFormats[i], mimeType)
  THEN supportedFormats[
         CHOOSE i \in 1..Len(supportedFormats) :
           /\ isMimeTypeAccepted(supportedFormats[i], mimeType)
           /\ \A j \in 1..(i - 1) :
                ~isMimeTypeAccepted(supportedFormats[j], mimeType)]
  ELSE undefined

Range(seq) == { seq[i] : i \in 1..Len(seq) }

(***************************************************************************)
(* The program state.                                                      *)
(*   serviceConfigs  the catalog (the configs argument, shared by calls)   *)
(*   loadedConfigs   the catalog as it was loaded (history variable)       *)
(*   noOpService     the module-level no-op service config object          *)
(*   operation       the DataOperation of the current request              *)
(*   context         the RequestContext of the current request             *)
(*   serviceConfig   the reference returned by the latest call             *)
(*   runs            the filterServiceConfigs runs of the latest call      *)
(*                   (history variable)                                    *)
(*   requests        number of DataOperations constructed so far, the      *)
(*                   first one included                                    *)
(*   request         the operation as the latest call received it          *)
(*                   (history variable)                                    *)
(*   service         the outcome of buildService on the returned           *)
(*                   descriptor: the service object or the error thrown    *)
(*   held            the latest no-match result an earlier request was     *)
(*                   given and still holds: the reference, and the message *)
(*                   it carried when returned (history variable)           *)
(* The state of the granule locator middleware                             *)
(* (app/middleware/cmr-granule-locator.js):                                *)
(*   req             the client request: its operation, with the sources   *)
(*                   and cmrHits, and its context                          *)
(*   cmrResponse     the variable of cmrGranuleLocator that every          *)
(*                   per-source callback assigns the response it awaited   *)
(*   queries         the promises of the per-source callbacks, each with   *)
(*                   the CMR query it issued and, as history, the response *)
(*                   it was resumed with and the hit count it added        *)
(*   allQueries      the promise of Promise.all(queries)                   *)
(*   nextCalls       the arguments of the calls of next, in order          *)
(*   pc              where cmrGranuleLocator is: not yet called, at the    *)
(*                   await of Promise.all, or returned                     *)
(***************************************************************************)
VARIABLES serviceConfigs, loadedConfigs, noOpService, operation, context,
          serviceConfig, runs, requests, request, service, held,
          req, cmrResponse, queries, allQueries, nextCalls, pc

serviceVars == <<serviceConfigs, loadedConfigs, noOpService, operation,
                 context, serviceConfig, runs, requests, request, service,
                 held>>

locatorVars == <<req, cmrResponse, queries, allQueries, nextCalls, pc>>

vars == <<serviceConfigs, loadedConfigs, noOpService, operation, context,
          serviceConfig, runs, requests, request, service, held,
          req, cmrResponse, queries, allQueries, nextCalls, pc>>

(***************************************************************************)
(* Service configurations.                                                 *)
(***************************************************************************)
Capabilities(output_formats, variable, bbox, shape, reprojection) ==
  [ output_formats |-> output_formats,
    subsetting |-> [variable |-> variable, bbox |-> bbox, shape |-> shape],
    reprojection |-> reprojection ]

ServiceConfig(name, type, collections, capabilities) ==
  [ name |-> name,
    type |-> [name |-> type],
    collections |-> collections,
    capabilities |-> capabilities,
    message |-> undefined ]

\* the service configurations the catalog is drawn from
ServicePool ==
  { ServiceConfig("first-service", "argo", {"C123-TEST"},
      Capabilities(<<"image/tiff", "application/x-netcdf4">>,
                   FALSE, FALSE, TRUE, FALSE)),
    ServiceConfig("second-service", "http", {"C123-TEST"},
      Capabilities(<<"image/tiff", "image/png">>,
                   FALSE, TRUE, FALSE, FALSE)),
    ServiceConfig("third-service", "argo", {"C123-TEST"},
      Capabilities(<<"image/tiff", "image/png">>,
                   FALSE, FALSE, FALSE, TRUE)),
    ServiceConfig("variable-subsetter", "argo", {"C123-TEST", "C456-NOMATCH"},
      Capabilities(<<"image/png", "application/x-netcdf4">>,
                   TRUE, TRUE, FALSE, FALSE)),
    ServiceConfig("non-matching-service", "argo", {"C456-NOMATCH"},
      Capabilities(<<>>, FALSE, FALSE, FALSE, FALSE)) }

\* a service of a type that has no service class
UnregisteredService ==
  ServiceConfig("unregistered-service", "lambda", {"C123-TEST"},
    Capabilities(<<"image/png">>, FALSE, TRUE, FALSE, FALSE))

\* catalogs of at most MaxBuildServices services, a service of an
\* unregistered type among them
BuildCatalogs ==
  UNION { { c \in [1..n -> ServicePool \cup {UnregisteredService}] :
              \A i, j \in 1..n : i # j => c[i].name # c[j].name } :
          n \in 0..MaxBuildServices }

\* catalogs: sequences of at most MaxServices distinct services
Catalogs ==
  UNION { { c \in [1..n -> ServicePool] :
              \A i, j \in 1..n : i # j => c[i].name # c[j].name } :
          n \in 0..MaxServices }

(***************************************************************************)
(* Requests.                                                               *)
(***************************************************************************)
Collections == {"C123-TEST", "C456-NOMATCH"}

Source(collection, variables) ==
  [collection |-> collection, variables |-> variables]

Variables == {<<>>, <<"V123-PROV1">>}

OutputFormats == {"image/png", "application/x-netcdf4"}

AcceptPatterns == {"*/*", "image/*", "application/x-netcdf4"}

Contexts ==
  [ requestedMimeTypes :
      UNION { [1..n -> AcceptPatterns] : n \in 0..MaxMimeTypes } ]

\* the contexts of the requests of a session: an Accept header that is
\* absent or names one pattern
SessionContexts ==
  [ requestedMimeTypes : {<<>>} \cup { <<p>> : p \in AcceptPatterns } ]

\* the contexts of the content negotiation: accept lists of at most
\* MaxAcceptTypes patterns, none given twice
NegotiationContexts ==
  [ requestedMimeTypes :
      UNION { { l \in [1..n -> AcceptPatterns] :
                  \A i, j \in 1..n : i # j => l[i] # l[j] } :
              n \in 0..MaxAcceptTypes } ]

\* a DataOperation as its constructor leaves it
NoOperation ==
  [ sources |-> <<>>, boundingRectangle |-> undefined, geojson |-> undefined,
    crs |-> undefined, outputFormat |-> undefined ]

NoContext == [requestedMimeTypes |-> <<>>]

(***************************************************************************)
(* Capability predicates.  A candidate list (configs) is a sequence of     *)
(* positions in the catalog, so that a chosen service is a reference to    *)
(* the catalog entry itself.                                               *)
(***************************************************************************)
isCollectionMatch(op, config) ==
  \A i \in 1..Len(op.sources) : op.sources[i].collection \in config.collections

\* mutation: every candidate is taken to produce the format
selectServicesForFormat_all(format, configs) == configs

selectServicesForFormat(format, configs) ==
  SelectSeq(configs, LAMBDA c :
    \E k \in 1..Len(serviceConfigs[c].capabilities.output_formats) :
      isMimeTypeAccepted(serviceConfigs[c].capabilities.output_formats[k], format))

\* the loop of selectFormat from the i-th requested mime type on
RECURSIVE selectFormatLoop(_, _, _)
selectFormatLoop(mimeTypes, i, configs) ==
  IF i > Len(mimeTypes) THEN undefined
  ELSE LET mimeType == mimeTypes[i]
           services == selectServicesForFormat(mimeType, configs)
           outputFormat ==
             IF Len(services) > 0
             THEN findAccepted(
                    serviceConfigs[services[1]].capabilities.output_formats,
                    mimeType)
             ELSE undefined
       IN IF outputFormat # undefined THEN outputFormat
          ELSE selectFormatLoop(mimeTypes, i + 1, configs)

selectFormat(op, ctx, configs) ==
  IF op.outputFormat = undefined /\ Len(ctx.requestedMimeTypes) > 0
  THEN selectFormatLoop(ctx.requestedMimeTypes, 1, configs)
  ELSE op.outputFormat

\* mutation: only the first requested mime type is tested for accept-anything
requiresReformatting_firstOnly(op, ctx) ==
  IF op.outputFormat # undefined THEN TRUE
  ELSE IF Len(ctx.requestedMimeTypes) > 0
       THEN ~allowsAny(ctx.requestedMimeTypes[1])
       ELSE FALSE

requiresReformatting(op, ctx) ==
  IF op.outputFormat # undefined THEN TRUE
  ELSE IF Len(ctx.requestedMimeTypes) > 0
       THEN LET anyMimeTypes == SelectSeq(ctx.requestedMimeTypes, allowsAny)
            IN Len(anyMimeTypes) = 0
       ELSE FALSE

requiresVariableSubsetting(op) ==
  LET varSources == SelectSeq(op.sources, LAMBDA s : Len(s.variables) > 0)
  IN Len(varSources) > 0

supportsVariableSubsetting(configs) ==
  SelectSeq(configs, LAMBDA c : serviceConfigs[c].capabilities.subsetting.variable)

requiresSpatialSubsetting(op) == op.boundingRectangle # undefined

\* mutation: reads the shape flag instead of the bbox flag
supportsSpatialSubsetting_shape(configs) ==
  SelectSeq(configs, LAMBDA c : serviceConfigs[c].capabilities.subsetting.shape)

supportsSpatialSubsetting(configs) ==
  SelectSeq(configs, LAMBDA c : serviceConfigs[c].capabilities.subsetting.bbox)

requiresReprojection(op) == op.crs # undefined

supportsReprojection(configs) ==
  SelectSeq(configs, LAMBDA c : serviceConfigs[c].capabilities.reprojection)

requiresShapefileSubsetting(op) == op.geojson # undefined

supportsShapefileSubsetting(configs) ==
  SelectSeq(configs, LAMBDA c : serviceConfigs[c].capabilities.subsetting.shape)

(***************************************************************************)
(* Filter functions.  Each returns the surviving candidates and the        *)
(* requestedOperations array as it leaves it; threw is TRUE when it throws *)
(* UnsupportedOperation (which carries that same array).                   *)
(***************************************************************************)
\* mutation: an empty list is returned instead of throwing
FilterResult_noThrow(matches, requestedOperations) ==
  [ threw |-> FALSE,
    matches |-> matches,
    requestedOperations |-> requestedOperations ]

\* lines 295-298 and alike: throw UnsupportedOperation when nothing is left
FilterResult(matches, requestedOperations) ==
  [ threw |-> Len(matches) = 0,
    matches |-> matches,
    requestedOperations |-> requestedOperations ]

filterCollectionMatches(op, ctx, configs, requestedOperations) ==
  LET matches == SelectSeq(configs, LAMBDA c : isCollectionMatch(op, serviceConfigs[c]))
  IN FilterResult(matches, requestedOperations)

\* mutation: the variable filter returns its matches without the empty check
filterVariableSubsettingMatches_noCheck(op, ctx, configs, requestedOperations) ==
  IF requiresVariableSubsetting(op)
  THEN [ threw |-> FALSE,
         matches |-> supportsVariableSubsetting(configs),
         requestedOperations |-> Append(requestedOperations, "variable subsetting") ]
  ELSE FilterResult(configs, requestedOperations)

filterVariableSubsettingMatches(op, ctx, configs, requestedOperations) ==
  IF requiresVariableSubsetting(op)
  THEN FilterResult(supportsVariableSubsetting(configs),
                    Append(requestedOperations, "variable subsetting"))
  ELSE FilterResult(configs, requestedOperations)

\* mutation: the candidates are narrowed whether or not reformatting is
\* required
filterOutputFormatMatches_always(op, ctx, configs, requestedOperations) ==
  LET outputFormat == selectFormat(op, ctx, configs)
  IN FilterResult(IF outputFormat # undefined
                  THEN selectServicesForFormat(outputFormat, configs)
                  ELSE <<>>,
                  requestedOperations)

filterOutputFormatMatches(op, ctx, configs, requestedOperations) ==
  IF requiresReformatting(op, ctx)
  THEN LET fmts == IF op.outputFormat # undefined THEN <<op.outputFormat>>
                   ELSE ctx.requestedMimeTypes
           outputFormat == selectFormat(op, ctx, configs)
           services == IF outputFormat # undefined
                       THEN selectServicesForFormat(outputFormat, configs)
                       ELSE <<>>
       IN FilterResult(services,
            Append(requestedOperations, "reformatting to " \o listToText(fmts, "or")))
  ELSE FilterResult(configs, requestedOperations)

filterSpatialSubsettingMatches(op, ctx, configs, requestedOperations) ==
  IF requiresSpatialSubsetting(op)
  THEN FilterResult(supportsSpatialSubsetting(configs),
                    Append(requestedOperations, "spatial subsetting"))
  ELSE FilterResult(configs, requestedOperations)

\* mutation: the reprojection requirement is not recorded
filterReprojectionMatches_noLog(op, ctx, configs, requestedOperations) ==
  IF requiresReprojection(op)
  THEN FilterResult(supportsReprojection(configs), requestedOperations)
  ELSE FilterResult(configs, requestedOperations)

filterReprojectionMatches(op, ctx, configs, requestedOperations) ==
  IF requiresReprojection(op)
  THEN FilterResult(supportsReprojection(configs),
                    Append(requestedOperations, "reprojection"))
  ELSE FilterResult(configs, requestedOperations)

\* mutation: the shapefile requirement is recorded as spatial subsetting
filterShapefileSubsettingMatches_spatial(op, ctx, configs, requestedOperations) ==
  IF requiresShapefileSubsetting(op)
  THEN FilterResult(supportsShapefileSubsetting(configs),
                    Append(requestedOperations, "spatial subsetting"))
  ELSE FilterResult(configs, requestedOperations)

filterShapefileSubsettingMatches(op, ctx, configs, requestedOperations) ==
  IF requiresShapefileSubsetting(op)
  THEN FilterResult(supportsShapefileSubsetting(configs),
                    Append(requestedOperations, "shapefile subsetting"))
  ELSE FilterResult(configs, requestedOperations)

\* calling a filter function by its name
ApplyFilterFn(filterFn, op, ctx, configs, requestedOperations) ==
  CASE filterFn = "filterCollectionMatches" ->
         filterCollectionMatches(op, ctx, configs, requestedOperations)
    [] filterFn = "filterVariableSubsettingMatches" ->
         filterVariableSubsettingMatches(op, ctx, configs, requestedOperations)
    [] filterFn = "filterSpatialSubsettingMatches" ->
         filterSpatialSubsettingMatches(op, ctx, configs, requestedOperations)
    [] filterFn = "filterShapefileSubsettingMatches" ->
         filterShapefileSubsettingMatches(op, ctx, configs, requestedOperations)
    [] filterFn = "filterReprojectionMatches" ->
         filterReprojectionMatches(op, ctx, configs, requestedOperations)
    [] filterFn = "filterOutputFormatMatches" ->
         filterOutputFormatMatches(op, ctx, configs, requestedOperations)

\* mutation: the reprojection filter runs before the spatial filters
allFilterFns_reprojectionFirst ==
  << "filterCollectionMatches",
     "filterVariableSubsettingMatches",
     "filterReprojectionMatches",
     "filterSpatialSubsettingMatches",
     "filterShapefileSubsettingMatches",
     "filterOutputFormatMatches" >>

\* mutation: the output-format filter runs right after the collection filter
allFilterFns_formatFirst ==
  << "filterCollectionMatches",
     "filterOutputFormatMatches",
     "filterVariableSubsettingMatches",
     "filterSpatialSubsettingMatches",
     "filterShapefileSubsettingMatches",
     "filterReprojectionMatches" >>

allFilterFns ==
  << "filterCollectionMatches",
     "filterVariableSubsettingMatches",
     "filterSpatialSubsettingMatches",
     "filterShapefileSubsettingMatches",
     "filterReprojectionMatches",
     "filterOutputFormatMatches" >>

\* mutation: the reduced chain also leaves out the reprojection filter
requiredFilterFns_noReprojection ==
  << "filterCollectionMatches",
     "filterVariableSubsettingMatches",
     "filterOutputFormatMatches" >>

requiredFilterFns ==
  << "filterCollectionMatches",
     "filterVariableSubsettingMatches",
     "filterReprojectionMatches",
     "filterOutputFormatMatches" >>

bestEffortMessage ==
  "Data in output files may extend outside the spatial bounds you requested."

\* mutation: the combination message is used whatever the log holds
unsupportedCombinationMessage_always(op, requestedOperations) ==
  LET collections == [i \in 1..Len(op.sources) |-> op.sources[i].collection]
  IN "the requested combination of operations: "
       \o listToText(requestedOperations, "and")
       \o " on " \o listToText(collections, "and") \o " is unsupported"

unsupportedCombinationMessage(op, requestedOperations) ==
  LET collections == [i \in 1..Len(op.sources) |-> op.sources[i].collection]
  IN IF Len(requestedOperations) > 0
     THEN "the requested combination of operations: "
            \o listToText(requestedOperations, "and")
            \o " on " \o listToText(collections, "and") \o " is unsupported"
     ELSE "no operations can be performed on " \o listToText(collections, "and")

(***************************************************************************)
(* References to service config objects.  chooseServiceConfig returns an   *)
(* object reference: a catalog entry, the module-level noOpService, or a   *)
(* fresh object made by cloneDeep.                                         *)
(***************************************************************************)
NoRef == [kind |-> "none"]
CatalogRef(i) == [kind |-> "catalog", idx |-> i]
NoOpRef == [kind |-> "noOp"]
CloneRef(config) == [kind |-> "clone", config |-> config]

\* the object a reference points to, in the given catalog and noOpService
DerefIn(ref, configs, noOp) ==
  CASE ref.kind = "catalog" -> configs[ref.idx]
    [] ref.kind = "noOp" -> noOp
    [] ref.kind = "clone" -> ref.config

\* the noOpService object as the module creates it
noOpServiceInit ==
  [ name |-> "noOpService",
    type |-> [name |-> "noOp"],
    capabilities |-> [output_formats |-> <<"application/json">>],
    message |-> undefined ]

(***************************************************************************)
(* filterServiceConfigs: the for loop over the filter functions, from the  *)
(* k-th function on.  failedAt names the function that threw.              *)
(***************************************************************************)
RECURSIVE runFilterFns(_, _, _, _, _, _)
runFilterFns(filterFns, k, op, ctx, matches, requestedOperations) ==
  IF k > Len(filterFns)
  THEN [ threw |-> FALSE, matches |-> matches,
         requestedOperations |-> requestedOperations, failedAt |-> "none" ]
  ELSE LET step(r) ==
             IF r.threw
             THEN [ threw |-> TRUE, matches |-> r.matches,
                    requestedOperations |-> r.requestedOperations,
                    failedAt |-> filterFns[k] ]
             ELSE runFilterFns(filterFns, k + 1, op, ctx, r.matches,
                               r.requestedOperations)
       IN step(ApplyFilterFn(filterFns[k], op, ctx, matches, requestedOperations))

\* mutation: the message is written only while the object has none
setNoOpMessage_once(noOp, message) ==
  IF noOp.message = undefined THEN [noOp EXCEPT !.message = message] ELSE noOp

\* line 552: noOpService.message = unsupportedCombinationMessage(e)
setNoOpMessage(noOp, message) == [noOp EXCEPT !.message = message]

\* mutation: takes the last candidate instead of the first
firstMatch_last(matches) ==
  IF Len(matches) > 0 THEN CatalogRef(matches[Len(matches)]) ELSE NoRef

\* line 549: serviceConfig = matches[0]
firstMatch(matches) ==
  IF Len(matches) > 0 THEN CatalogRef(matches[1]) ELSE NoRef

\* mutation: the candidates are not narrowed to the resolved format
formatMatches_unnarrowed(outputFormat, matches) == matches

\* lines 544-548: if (outputFormat) matches = selectServicesForFormat(...)
formatMatches(outputFormat, matches) ==
  IF outputFormat # undefined
  THEN selectServicesForFormat(outputFormat, matches)
  ELSE matches

\* mutation: the resolved format is written whether or not a filter threw
operationAfterTry_always(op, threw, outputFormat) ==
  IF outputFormat # undefined
  THEN [op EXCEPT !.outputFormat = outputFormat]
  ELSE op

\* the operation as the try block leaves it: line 546 is reached only when
\* no filter of the chain threw
operationAfterTry(op, threw, outputFormat) ==
  IF ~threw /\ outputFormat # undefined
  THEN [op EXCEPT !.outputFormat = outputFormat]
  ELSE op

\* Returns the chosen reference, the operation and the noOpService object as
\* the call leaves them, and a record of the run (seen is the operation the
\* run was given).
filterServiceConfigs(op, ctx, configs, filterFns, noOp) ==
  LET \* the catch block, lines 550-553
      caught(chain, message) ==
        [ serviceConfig |-> NoOpRef,
          operation |-> operationAfterTry(op, TRUE,
                                          selectFormat(op, ctx, configs)),
          noOpService |-> setNoOpMessage(noOp, message),
          run |-> [ filterFns |-> filterFns, seen |-> op, threw |-> TRUE,
                    failedAt |-> chain.failedAt,
                    requestedOperations |-> chain.requestedOperations,
                    matches |-> <<>>, message |-> message ] ]
      \* lines 549 and 555-559
      selected(chain, outputFormat, matches) ==
        [ serviceConfig |-> firstMatch(matches),
          operation |-> operationAfterTry(op, FALSE, outputFormat),
          noOpService |-> noOp,
          run |-> [ filterFns |-> filterFns, seen |-> op, threw |-> FALSE,
                    failedAt |-> "none",
                    requestedOperations |-> chain.requestedOperations,
                    matches |-> matches, message |-> undefined ] ]
      \* lines 543-548
      narrowed(chain, outputFormat) ==
        selected(chain, outputFormat, formatMatches(outputFormat, chain.matches))
      tried(chain) ==
        IF chain.threw
        THEN caught(chain,
                    unsupportedCombinationMessage(op, chain.requestedOperations))
        ELSE narrowed(chain, selectFormat(op, ctx, chain.matches))
  IN tried(runFilterFns(filterFns, 1, op, ctx, configs, <<>>))

\* mutation: reformatting is not counted among the required operations
requiresStrictCapabilitiesMatching_noFormat(op, ctx) ==
  \/ ~requiresSpatialSubsetting(op) /\ ~requiresShapefileSubsetting(op)
  \/ /\ ~requiresVariableSubsetting(op)
     /\ ~requiresReprojection(op)

requiresStrictCapabilitiesMatching(op, ctx) ==
  \/ ~requiresSpatialSubsetting(op) /\ ~requiresShapefileSubsetting(op)
  \/ /\ ~requiresVariableSubsetting(op)
     /\ ~requiresReprojection(op)
     /\ ~requiresReformatting(op, ctx)

\* mutation: the message is written on the catalog entry itself
bestEffortServiceConfig_inPlace(ref, configs) ==
  [ serviceConfig |-> ref,
    serviceConfigs |-> [configs EXCEPT ![ref.idx].message = bestEffortMessage] ]

\* lines 607-608: the service found by the reduced run is deep-cloned and
\* the clone gets the best-effort message; the catalog is left as it is
bestEffortServiceConfig(ref, configs) ==
  [ serviceConfig |->
      CloneRef([configs[ref.idx] EXCEPT !.message = bestEffortMessage]),
    serviceConfigs |-> configs ]

\* Returns the reference chosen, and the catalog, the operation and the
\* noOpService object as the call leaves them; runs records the
\* filterServiceConfigs runs made.
chooseServiceConfig(op, ctx, configs, noOp) ==
  LET \* lines 606-609
      degraded(strict, reduced, bestEffort) ==
        [ serviceConfig |-> bestEffort.serviceConfig,
          serviceConfigs |-> bestEffort.serviceConfigs,
          operation |-> reduced.operation,
          noOpService |-> reduced.noOpService,
          runs |-> <<strict.run, reduced.run>> ]
      \* lines 604-605
      second(strict, reduced) ==
        IF /\ reduced.serviceConfig.kind # "none"
           /\ DerefIn(reduced.serviceConfig, configs,
                      reduced.noOpService).name # "noOpService"
        THEN degraded(strict, reduced,
                      bestEffortServiceConfig(reduced.serviceConfig, configs))
        ELSE [ serviceConfig |-> reduced.serviceConfig,
               serviceConfigs |-> configs,
               operation |-> reduced.operation,
               noOpService |-> reduced.noOpService,
               runs |-> <<strict.run, reduced.run>> ]
      \* lines 602-603
      first(strict) ==
        IF /\ strict.serviceConfig.kind # "none"
           /\ DerefIn(strict.serviceConfig, configs, strict.noOpService).name
                = "noOpService"
           /\ ~requiresStrictCapabilitiesMatching(strict.operation, ctx)
        THEN second(strict,
                    filterServiceConfigs(strict.operation, ctx,
                                         [i \in 1..Len(configs) |-> i],
                                         requiredFilterFns, strict.noOpService))
        ELSE [ serviceConfig |-> strict.serviceConfig,
               serviceConfigs |-> configs,
               operation |-> strict.operation,
               noOpService |-> strict.noOpService,
               runs |-> <<strict.run>> ]
  IN first(filterServiceConfigs(op, ctx, [i \in 1..Len(configs) |-> i],
                                allFilterFns, noOp))

(***************************************************************************)
(* buildService: the service class is looked up by the descriptor's type   *)
(* name; a service is an object of that class holding the descriptor and   *)
(* the operation.                                                          *)
(***************************************************************************)
NoService == [kind |-> "none"]

\* no earlier request holds a no-match result
NoneHeld == [serviceConfig |-> NoRef, message |-> undefined]

\* mutation: the table has no entry for the noOp type
serviceTypesToServiceClasses_noNoOp(typeName) ==
  CASE typeName = "http" -> "HttpService"
    [] typeName = "argo" -> "ArgoService"
    [] OTHER -> undefined

serviceTypesToServiceClasses(typeName) ==
  CASE typeName = "http" -> "HttpService"
    [] typeName = "argo" -> "ArgoService"
    [] typeName = "noOp" -> "NoOpService"
    [] OTHER -> undefined

buildService(config, op) ==
  IF serviceTypesToServiceClasses(config.type.name) = undefined
  THEN [ kind |-> "NotFoundError",
         message |-> "Could not find an appropriate service class for type" ]
  ELSE [ kind |-> "service",
         class |-> serviceTypesToServiceClasses(config.type.name),
         config |-> config,
         operation |-> op ]

(***************************************************************************)
(* The granule locator middleware, cmrGranuleLocator                       *)
(* (app/middleware/cmr-granule-locator.js), and the error classes of       *)
(* app/util/errors.js.                                                     *)
(***************************************************************************)
\* the largest number of sources of an operation
MaxSources == 2

\* an absent value (undefined) where the present value is not a string
Missing == [kind |-> "undefined"]

\* errors.js: the class each error class extends
SuperClass(class) ==
  CASE class = "RequestValidationError" -> "HttpError"
    [] class = "CmrError" -> "HttpError"
    [] class = "ServerError" -> "HttpError"
    [] class = "HttpError" -> "Error"
    [] OTHER -> "Object"

\* e instanceof class
RECURSIVE instanceOf(_, _)
instanceOf(class, ofClass) ==
  \/ class = ofClass
  \/ class # "Object" /\ instanceOf(SuperClass(class), ofClass)

\* an error object; the message is the sequence of its parts
HttpError(class, code, message) ==
  [class |-> class, code |-> code, message |-> message]

\* errors.js: new RequestValidationError(message)
RequestValidationError(message) ==
  HttpError("RequestValidationError", 400, message)

\* errors.js: new ServerError(message)
ServerError(message) == HttpError("ServerError", 500, message)

\* the rejections of a CMR query: a CmrError, a CmrError about the GeoJSON
\* sent, and a failure that is no HttpError
CmrFailures ==
  { HttpError("CmrError", 400, <<"invalid temporal range">>),
    HttpError("CmrError", 400,
              <<"GeoJSON", " is invalid: the ", "GeoJSON", " ring is open">>),
    [class |-> "Error", code |-> Missing, message |-> <<"socket hang up">>] }

\* e.message.indexOf('GeoJSON') !== -1
mentionsGeoJSON(message) ==
  \E k \in 1..Len(message) : message[k] = "GeoJSON"

\* e.message.replace('GeoJSON', typeName): the first occurrence is replaced
replaceGeoJSON(message, typeName) ==
  IF mentionsGeoJSON(message)
  THEN LET first == CHOOSE k \in 1..Len(message) :
                      /\ message[k] = "GeoJSON"
                      /\ \A j \in 1..(k - 1) : message[j] # "GeoJSON"
       IN [message EXCEPT ![first] = typeName]
  ELSE message

\* link relations of the links of a CMR granule
DataRel == "http://esipfed.org/ns/fedsearch/1.1/data#"
MetadataRel == "http://esipfed.org/ns/fedsearch/1.1/metadata#"

\* g.rel.endsWith('/data#')
endsWithData(rel) == rel = DataRel

Link(rel, href, inherited) ==
  [rel |-> rel, href |-> href, inherited |-> inherited]

AtomGranule(id, title, links) ==
  [id |-> id, title |-> title, links |-> links]

\* line 66: (g) => g.rel.endsWith('/data#') && !g.inherited
isDataLink(g) == endsWithData(g.rel) /\ ~g.inherited

\* lines 64-70: the granules that have a data link of their own, each with
\* the href of the first such link
RECURSIVE granulesOf(_, _)
granulesOf(atomGranules, k) ==
  IF k > Len(atomGranules) THEN <<>>
  ELSE LET granule == atomGranules[k]
           found == { j \in 1..Len(granule.links) : isDataLink(granule.links[j]) }
       IN IF found = {}
          THEN granulesOf(atomGranules, k + 1)
          ELSE <<[ id |-> granule.id, name |-> granule.title,
                   url |-> granule.links[CHOOSE j \in found :
                                           \A i \in found : j <= i].href ]>>
               \o granulesOf(atomGranules, k + 1)

\* the responses of the CMR to a granule query on a collection: one granule
\* with a data link; two granules, the first with an inherited data link
\* only and the second with a data link after an inherited one; one granule
\* without a data link of its own; no granule
CmrResponses(collection) ==
  { [ hits |-> 1,
      granules |-> <<AtomGranule(<<collection, "G1">>, "one",
                       <<Link(DataRel, "https://one/data", FALSE)>>)>> ],
    [ hits |-> 2,
      granules |-> <<AtomGranule(<<collection, "G1">>, "one",
                       <<Link(DataRel, "https://one/inherited", TRUE),
                         Link(MetadataRel, "https://one/metadata", FALSE)>>),
                     AtomGranule(<<collection, "G2">>, "two",
                       <<Link(DataRel, "https://two/inherited", TRUE),
                         Link(DataRel, "https://two/data", FALSE)>>)>> ],
    [ hits |-> 1,
      granules |-> <<AtomGranule(<<collection, "G1">>, "one",
                       <<Link(DataRel, "https://one/inherited", TRUE)>>)>> ],
    [ hits |-> 0, granules |-> <<>> ] }

\* a source of the operation, before its granules are attached
LocatorSource(collection) == [collection |-> collection, granules |-> <<>>]

\* the requests the middleware is given: without an operation, or with an
\* operation of at most MaxSources sources; with or without a shapefile
LocatorRequests ==
  [ operation :
      {Missing} \cup
      [ kind : {"operation"},
        sources : UNION { [1..n -> { LocatorSource(c) : c \in Collections }] :
                          n \in 0..MaxSources },
        geojson : {undefined, "geojson"},
        cmrHits : {Missing} ],
    context : [ shapefile : {Missing, [typeName |-> "ESRI Shapefile"]} ] ]

\* the arguments of a call of next: none, the error object a query was
\* rejected with, or an error object created by the middleware
NoArgument == [kind |-> "none"]
Thrown(i) == [kind |-> "thrown", query |-> i]
Created(e) == [kind |-> "created", error |-> e]

\* the state of the middleware before it is called
LocatorNotCalled ==
  /\ req = [ operation |-> Missing, context |-> [shapefile |-> Missing] ]
  /\ cmrResponse = Missing
  /\ queries = <<>>
  /\ allQueries = [state |-> "none", reason |-> 0]
  /\ nextCalls = <<>>
  /\ pc = "notCalled"

(***************************************************************************)
(* The state machine.                                                      *)
(***************************************************************************)
Init ==
  /\ serviceConfigs \in Catalogs
  /\ loadedConfigs = serviceConfigs
  /\ noOpService = noOpServiceInit
  /\ operation = NoOperation
  /\ context = NoContext
  /\ serviceConfig = NoRef
  /\ runs = <<>>
  /\ requests = 1
  /\ request = NoOperation
  /\ service = NoService
  /\ held = NoneHeld
  /\ LocatorNotCalled

\* the caller populates the operation of a request that it has constructed
\* and not yet passed to chooseServiceConfig
Populate(op) ==
  /\ Len(runs) = 0
  /\ operation' = op
  /\ UNCHANGED <<serviceConfigs, loadedConfigs, noOpService, context,
                 serviceConfig, runs, requests, request, service, held>>
  /\ UNCHANGED locatorVars

\* new DataOperation() for the next request
NewOperation ==
  /\ requests < MaxSessionRequests
  /\ requests' = requests + 1
  /\ operation' = NoOperation
  /\ context' = NoContext
  /\ serviceConfig' = NoRef
  /\ runs' = <<>>
  /\ request' = NoOperation
  /\ service' = NoService
  /\ UNCHANGED <<serviceConfigs, loadedConfigs, noOpService, held>>
  /\ UNCHANGED locatorVars

\* new DataOperation() for the next request, while the earlier request
\* keeps the no-match result it was given
NewOperationHolding ==
  /\ requests < MaxSessionRequests
  /\ requests' = requests + 1
  /\ operation' = NoOperation
  /\ context' = NoContext
  /\ serviceConfig' = NoRef
  /\ runs' = <<>>
  /\ request' = NoOperation
  /\ service' = NoService
  /\ held' = IF serviceConfig = NoOpRef
             THEN [serviceConfig |-> NoOpRef, message |-> noOpService.message]
             ELSE held
  /\ UNCHANGED <<serviceConfigs, loadedConfigs, noOpService>>
  /\ UNCHANGED locatorVars

\* operation.addSource(collection, variables)
AddSource(collection, variables) ==
  /\ \A i \in 1..Len(operation.sources) :
       operation.sources[i].collection # collection
  /\ Populate([operation EXCEPT
                 !.sources = Append(@, Source(collection, variables))])

\* operation.boundingRectangle = [0, 0, 10, 10]
SetBoundingRectangle ==
  /\ operation.boundingRectangle = undefined
  /\ Populate([operation EXCEPT !.boundingRectangle = "0,0,10,10"])

\* operation.geojson = { pretend: 'geojson' }
SetGeojson ==
  /\ operation.geojson = undefined
  /\ Populate([operation EXCEPT !.geojson = "geojson"])

\* operation.crs = 'EPSG:4326'
SetCrs ==
  /\ operation.crs = undefined
  /\ Populate([operation EXCEPT !.crs = "EPSG:4326"])

\* operation.outputFormat = format
SetOutputFormat(format) ==
  /\ operation.outputFormat = undefined
  /\ Populate([operation EXCEPT !.outputFormat = format])

\* chooseServiceConfig(operation, ctx, serviceConfigs); a repeated call on
\* the same request passes the same context, and the service is built after
\* the last call
ChooseServiceConfig(ctx) ==
  /\ Len(operation.sources) > 0
  /\ service = NoService
  /\ Len(runs) > 0 => ctx = context
  /\ \E r \in {chooseServiceConfig(operation, ctx, serviceConfigs, noOpService)} :
       /\ serviceConfig' = r.serviceConfig
       /\ serviceConfigs' = r.serviceConfigs
       /\ operation' = r.operation
       /\ noOpService' = r.noOpService
       /\ runs' = r.runs
  /\ context' = ctx
  /\ request' = operation
  /\ UNCHANGED <<loadedConfigs, requests, service, held>>
  /\ UNCHANGED locatorVars

\* buildService(serviceConfig, operation) on the descriptor the latest call
\* returned
BuildService ==
  /\ Len(runs) > 0
  /\ service = NoService
  /\ service' = buildService(DerefIn(serviceConfig, serviceConfigs, noOpService),
                             operation)
  /\ UNCHANGED <<serviceConfigs, loadedConfigs, noOpService, operation,
                 context, serviceConfig, runs, requests, request, held>>
  /\ UNCHANGED locatorVars

\* one request per run of the program
Next ==
  \/ \E c \in Collections, v \in Variables : AddSource(c, v)
  \/ SetBoundingRectangle
  \/ SetGeojson
  \/ SetCrs
  \/ \E f \in OutputFormats : SetOutputFormat(f)
  \/ \E ctx \in Contexts : ChooseServiceConfig(ctx)

Spec == Init /\ [][Next]_vars

\* several requests, one after the other, on a catalog of at most
\* MaxSessionServices services
InitSession ==
  /\ Init
  /\ Len(serviceConfigs) <= MaxSessionServices

NextSession ==
  \/ NewOperation
  \/ \E c \in Collections, v \in Variables : AddSource(c, v)
  \/ SetBoundingRectangle
  \/ SetGeojson
  \/ SetCrs
  \/ \E f \in OutputFormats : SetOutputFormat(f)
  \/ \E ctx \in SessionContexts : ChooseServiceConfig(ctx)

SpecSession == InitSession /\ [][NextSession]_vars

\* several requests, one after the other, each keeping the result it was
\* given
NextHolding ==
  \/ NewOperationHolding
  \/ \E c \in Collections, v \in Variables : AddSource(c, v)
  \/ SetBoundingRectangle
  \/ SetGeojson
  \/ SetCrs
  \/ \E f \in OutputFormats : SetOutputFormat(f)
  \/ \E ctx \in SessionContexts : ChooseServiceConfig(ctx)

SpecHolding == InitSession /\ [][NextHolding]_vars

\* one request, with the accept lists of the content negotiation
NextNegotiation ==
  \/ \E c \in Collections, v \in Variables : AddSource(c, v)
  \/ SetBoundingRectangle
  \/ SetGeojson
  \/ SetCrs
  \/ \E f \in OutputFormats : SetOutputFormat(f)
  \/ \E ctx \in NegotiationContexts : ChooseServiceConfig(ctx)

SpecNegotiation == Init /\ [][NextNegotiation]_vars

\* one request on a catalog that may hold a service of an unregistered
\* type, and the service built from the descriptor returned
InitBuild ==
  /\ serviceConfigs \in BuildCatalogs
  /\ loadedConfigs = serviceConfigs
  /\ noOpService = noOpServiceInit
  /\ operation = NoOperation
  /\ context = NoContext
  /\ serviceConfig = NoRef
  /\ runs = <<>>
  /\ requests = 1
  /\ request = NoOperation
  /\ service = NoService
  /\ held = NoneHeld
  /\ LocatorNotCalled

NextBuild ==
  \/ \E c \in Collections, v \in Variables : AddSource(c, v)
  \/ SetBoundingRectangle
  \/ SetGeojson
  \/ SetCrs
  \/ \E f \in OutputFormats : SetOutputFormat(f)
  \/ \E ctx \in Contexts : ChooseServiceConfig(ctx)
  \/ BuildService

SpecBuild == InitBuild /\ [][NextBuild]_vars

(***************************************************************************)
(* The state machine of the granule locator.  A step is what runs between  *)
(* two awaits: the call of cmrGranuleLocator up to await Promise.all, the  *)
(* resumption of one per-source callback when its CMR query settles, and   *)
(* the resumption of cmrGranuleLocator when Promise.all has settled; the   *)
(* queries settle in any order.                                            *)
(***************************************************************************)
\* the CMR query function a callback calls, lines 41-56
queryFunction(op) ==
  IF op.geojson # undefined
  THEN "queryGranulesForCollectionWithMultipartForm"
  ELSE "queryGranulesForCollection"

\* lines 36-56: the promise of the callback of the i-th source, waiting for
\* the query it issued
PendingQuery(op, i) ==
  [ fn |-> queryFunction(op), collection |-> op.sources[i].collection,
    state |-> "pending", reason |-> Missing, response |-> Missing,
    hits |-> 0 ]

\* Promise.all(queries) once the i-th promise has settled: rejected with
\* the first rejection, fulfilled when every promise is
promiseAll(all, settled, i) ==
  IF all.state # "pending" THEN all
  ELSE IF settled[i].state = "rejected"
       THEN [state |-> "rejected", reason |-> i]
       ELSE IF \A j \in 1..Len(settled) : settled[j].state = "fulfilled"
            THEN [state |-> "fulfilled", reason |-> 0]
            ELSE all

\* lines 15-58 and 77: the call, up to the first await
CmrGranuleLocator ==
  /\ pc = "notCalled"
  /\ IF req.operation = Missing
     THEN /\ nextCalls' = Append(nextCalls, NoArgument)
          /\ pc' = "returned"
          /\ UNCHANGED <<req, queries, allQueries>>
     ELSE /\ req' = [req EXCEPT !.operation.cmrHits = 0]
          /\ queries' = [ i \in 1..Len(req.operation.sources) |->
                            PendingQuery(req.operation, i) ]
          /\ allQueries' = IF Len(req.operation.sources) = 0
                           THEN [state |-> "fulfilled", reason |-> 0]
                           ELSE [state |-> "pending", reason |-> 0]
          /\ pc' = "awaiting"
          /\ UNCHANGED nextCalls
  /\ UNCHANGED cmrResponse
  /\ UNCHANGED serviceVars

\* mutation: the hit count replaces the count so far
addHits_overwrite(cmrHits, hits) == hits

\* line 59: operation.cmrHits += hits
addHits(cmrHits, hits) == cmrHits + hits

\* lines 43-75 after the await: the callback of the i-th source assigns the
\* response to cmrResponse, and with the response it then reads (read) adds
\* the hits, collects the granules and attaches them to the source or throws
Resume(i, response, read) ==
  /\ cmrResponse' = response
  /\ \E granules \in {granulesOf(read.granules, 1)} :
       /\ req' = [req EXCEPT
                    !.operation.cmrHits = addHits(@, read.hits),
                    !.operation.sources[i].granules =
                       IF Len(granules) = 0 THEN @ ELSE granules]
       /\ queries' = [queries EXCEPT ![i] =
            [ @ EXCEPT
                !.state = IF Len(granules) = 0 THEN "rejected" ELSE "fulfilled",
                !.reason = IF Len(granules) = 0
                           THEN RequestValidationError(
                                  <<"No matching granules found.">>)
                           ELSE Missing,
                !.response = response,
                !.hits = read.hits ]]
  /\ allQueries' = promiseAll(allQueries, queries', i)
  /\ UNCHANGED <<nextCalls, pc>>
  /\ UNCHANGED serviceVars

\* mutation: the callback reads what an earlier callback left in cmrResponse
QueryResolved_stale(i, response) ==
  /\ i \in 1..Len(queries)
  /\ queries[i].state = "pending"
  /\ Resume(i, response, IF cmrResponse = Missing THEN response ELSE cmrResponse)

\* the CMR answers the query of the i-th source; the callback runs from its
\* await to its end, reading cmrResponse right after assigning it
QueryResolved(i, response) ==
  /\ i \in 1..Len(queries)
  /\ queries[i].state = "pending"
  /\ Resume(i, response, cmrResponse')

\* the CMR query of the i-th source fails with e, which the await rethrows
QueryRejected(i, e) ==
  /\ i \in 1..Len(queries)
  /\ queries[i].state = "pending"
  /\ queries' = [queries EXCEPT ![i] =
                   [@ EXCEPT !.state = "rejected", !.reason = e]]
  /\ allQueries' = promiseAll(allQueries, queries', i)
  /\ UNCHANGED <<req, cmrResponse, nextCalls, pc>>
  /\ UNCHANGED serviceVars

\* lines 77 and 90: every query was fulfilled
Continue ==
  /\ pc = "awaiting"
  /\ allQueries.state = "fulfilled"
  /\ nextCalls' = Append(nextCalls, NoArgument)
  /\ pc' = "returned"
  /\ UNCHANGED <<req, cmrResponse, queries, allQueries>>
  /\ UNCHANGED serviceVars

\* mutation: every failure is passed on as it is
passedOn_all(e) == TRUE

\* line 79: e instanceof RequestValidationError || e instanceof CmrError
passedOn(e) ==
  \/ instanceOf(e.class, "RequestValidationError")
  \/ instanceOf(e.class, "CmrError")

\* lines 80-84: the message of the error object, after the replacement
messageToPass(e, ctx) ==
  IF mentionsGeoJSON(e.message) /\ ctx.shapefile # Missing
  THEN replaceGeoJSON(e.message, ctx.shapefile.typeName)
  ELSE e.message

\* lines 87-90: after next(new ServerError(...)) the catch block ends and
\* the function goes on to return next()
afterServerError(calls) == Append(calls, NoArgument)

\* lines 78-90: Promise.all was rejected with the error of the first query
\* that failed
Catch ==
  /\ pc = "awaiting"
  /\ allQueries.state = "rejected"
  /\ LET i == allQueries.reason
         e == queries[i].reason
     IN IF passedOn(e)
        THEN /\ queries' = [queries EXCEPT
                              ![i].reason.message = messageToPass(e, req.context)]
             /\ nextCalls' = Append(nextCalls, Thrown(i))
        ELSE /\ nextCalls' =
                  afterServerError(
                    Append(nextCalls,
                           Created(ServerError(<<"Failed to query the CMR">>))))
             /\ UNCHANGED queries
  /\ pc' = "returned"
  /\ UNCHANGED <<req, cmrResponse, allQueries>>
  /\ UNCHANGED serviceVars

InitLocator ==
  /\ serviceConfigs = <<>>
  /\ loadedConfigs = serviceConfigs
  /\ noOpService = noOpServiceInit
  /\ operation = NoOperation
  /\ context = NoContext
  /\ serviceConfig = NoRef
  /\ runs = <<>>
  /\ requests = 1
  /\ request = NoOperation
  /\ service = NoService
  /\ held = NoneHeld
  /\ req \in LocatorRequests
  /\ cmrResponse = Missing
  /\ queries = <<>>
  /\ allQueries = [state |-> "none", reason |-> 0]
  /\ nextCalls = <<>>
  /\ pc = "notCalled"

NextLocator ==
  \/ CmrGranuleLocator
  \/ \E i \in 1..Len(queries) :
       \E response \in CmrResponses(queries[i].collection) :
         QueryResolved(i, response)
  \/ \E i \in 1..Len(queries), e \in CmrFailures : QueryRejected(i, e)
  \/ Continue
  \/ Catch

SpecLocator == InitLocator /\ [][NextLocator]_vars

(***************************************************************************)
(* Vocabulary of the properties, stated on the request and the catalog     *)
(* without reference to the filter chain.                                  *)
(***************************************************************************)
\* a chooseServiceConfig call on the current request has returned
Called == Len(runs) > 0

\* the object the returned reference points to
Result == DerefIn(serviceConfig, serviceConfigs, noOpService)

CollectionsOf(op) == { op.sources[i].collection : i \in 1..Len(op.sources) }

NeedsVariable(op) == \E i \in 1..Len(op.sources) : op.sources[i].variables # <<>>
NeedsBbox(op) == op.boundingRectangle # undefined
NeedsShape(op) == op.geojson # undefined
NeedsCrs(op) == op.crs # undefined
NeedsFormat(op, ctx) ==
  \/ op.outputFormat # undefined
  \/ /\ ctx.requestedMimeTypes # <<>>
     /\ "*/*" \notin Range(ctx.requestedMimeTypes)

NeedsSoft(op) == NeedsBbox(op) \/ NeedsShape(op)
NeedsHard(op, ctx) == NeedsVariable(op) \/ NeedsCrs(op) \/ NeedsFormat(op, ctx)

\* the service declares an output format the request accepts
HasAcceptedFormat(svc, op, ctx) ==
  IF op.outputFormat # undefined
  THEN op.outputFormat \in Range(svc.capabilities.output_formats)
  ELSE \E f \in Range(svc.capabilities.output_formats),
          m \in Range(ctx.requestedMimeTypes) : isMimeTypeAccepted(f, m)

SupportsCollections(svc, op) == CollectionsOf(op) \subseteq svc.collections

\* the service supports the hard axes the request requires
SupportsHard(svc, op, ctx) ==
  /\ NeedsVariable(op) => svc.capabilities.subsetting.variable
  /\ NeedsCrs(op) => svc.capabilities.reprojection
  /\ NeedsFormat(op, ctx) => HasAcceptedFormat(svc, op, ctx)

\* the service supports the soft axes the request requires
SupportsSoft(svc, op) ==
  /\ NeedsBbox(op) => svc.capabilities.subsetting.bbox
  /\ NeedsShape(op) => svc.capabilities.subsetting.shape

\* positions of the catalog entries that support the collections and every
\* axis the request requires
Supporting(op, ctx) ==
  { i \in 1..Len(serviceConfigs) :
      /\ SupportsCollections(serviceConfigs[i], op)
      /\ SupportsSoft(serviceConfigs[i], op)
      /\ SupportsHard(serviceConfigs[i], op, ctx) }

Min(S) == CHOOSE x \in S : \A y \in S : x <= y

(***************************************************************************)
(* C1: a catalog service returned without the best-effort warning (a       *)
(* strict match) supports every collection of the request's sources and    *)
(* every axis the request requires: variable, bbox and shape subsetting,   *)
(* reprojection, and an accepted output format if reformatting is needed.  *)
(***************************************************************************)
C1_StrictMatchSupportsRequest ==
  (Called /\ serviceConfig.kind = "catalog") =>
    /\ SupportsCollections(Result, request)
    /\ NeedsVariable(request) => Result.capabilities.subsetting.variable
    /\ NeedsBbox(request) => Result.capabilities.subsetting.bbox
    /\ NeedsShape(request) => Result.capabilities.subsetting.shape
    /\ NeedsCrs(request) => Result.capabilities.reprojection
    /\ NeedsFormat(request, context) => HasAcceptedFormat(Result, request, context)

C1_Witness ==
  /\ Called
  /\ serviceConfig.kind = "catalog"
  /\ Len(request.sources) = 2
  /\ NeedsVariable(request)
  /\ NeedsBbox(request)
  /\ request.outputFormat = "application/x-netcdf4"

(***************************************************************************)
(* C2: for a request with an explicit output format, or with no accepted   *)
(* media types, if some catalog entry supports the request's collections   *)
(* and every required axis, the call returns the first such entry in       *)
(* catalog order, as the catalog entry itself, unchanged and without a     *)
(* message.                                                                *)
(***************************************************************************)
C2_FirstSupportingEntry ==
  ( /\ Called
    /\ request.outputFormat # undefined \/ context.requestedMimeTypes = <<>>
    /\ Supporting(request, context) # {} ) =>
      /\ serviceConfig = CatalogRef(Min(Supporting(request, context)))
      /\ Result = loadedConfigs[serviceConfig.idx]
      /\ Result.message = undefined

C2_Witness ==
  /\ Called
  /\ request.outputFormat = "application/x-netcdf4"
  /\ Cardinality(Supporting(request, context)) = 2
  /\ serviceConfig = CatalogRef(1)

(***************************************************************************)
(* C3: the reduced (best-effort) chain is run if and only if the strict    *)
(* chain ended in no match and the request requires at least one soft axis *)
(* and at least one hard axis; otherwise the strict result is returned     *)
(* without a retry.                                                        *)
(***************************************************************************)
C3_ReducedRunIffMixedNoMatch ==
  Called =>
    /\ Len(runs) \in {1, 2}
    /\ runs[1].filterFns = allFilterFns
    /\ Len(runs) = 2 <=>
         ( /\ runs[1].threw
           /\ NeedsSoft(request)
           /\ NeedsHard(request, context) )
    /\ Len(runs) = 2 => runs[2].filterFns = requiredFilterFns
    /\ Len(runs) = 1 /\ runs[1].threw => serviceConfig = NoOpRef

C3_Witness ==
  /\ Called
  /\ Len(runs) = 2
  /\ NeedsShape(request)
  /\ NeedsCrs(request)

(***************************************************************************)
(* C4: a service returned from the reduced run carries the best-effort     *)
(* message and supports the request's collections and every hard axis the  *)
(* request requires (variable subsetting, reprojection, output format);    *)
(* its bbox and shape support are not checked.                             *)
(***************************************************************************)
C4_BestEffortSupportsHardAxes ==
  (Called /\ Len(runs) = 2 /\ ~runs[2].threw) =>
    /\ serviceConfig.kind = "clone"
    /\ Result.message = bestEffortMessage
    /\ SupportsCollections(Result, request)
    /\ SupportsHard(Result, request, context)

C4_Witness ==
  /\ Called
  /\ serviceConfig.kind = "clone"
  /\ NeedsBbox(request)
  /\ ~Result.capabilities.subsetting.bbox
  /\ NeedsCrs(request)
  /\ NeedsFormat(request, context)

\* the collections of the request as the messages name them
CollectionText(op) ==
  listToText([i \in 1..Len(op.sources) |-> op.sources[i].collection], "and")

\* the run whose outcome the call returned
LastRun == runs[Len(runs)]

SoftDescriptions == {"spatial subsetting", "shapefile subsetting"}

(***************************************************************************)
(* C5 as claimed: when the strict run and the permitted reduced run both   *)
(* end in no match, the no-match sentinel carries the diagnostic of the    *)
(* strict run.                                                             *)
(***************************************************************************)
C5_StrictDiagnosticKept ==
  (Called /\ Len(runs) = 2 /\ runs[2].threw) =>
    /\ serviceConfig = NoOpRef
    /\ Result.message = runs[1].message

(***************************************************************************)
(* C5 as amended: when the strict run and the permitted reduced run both   *)
(* end in no match, the no-match sentinel carries the diagnostic of the    *)
(* reduced run, whose log names no soft axis; it is the strict diagnostic  *)
(* only if the strict log named no soft axis either.                       *)
(***************************************************************************)
C5_ReducedDiagnosticReturned ==
  (Called /\ Len(runs) = 2 /\ runs[2].threw) =>
    /\ serviceConfig = NoOpRef
    /\ Result.name = "noOpService"
    /\ Result.message = runs[2].message
    /\ Range(runs[2].requestedOperations) \cap SoftDescriptions = {}
    /\ Result.message = runs[1].message <=>
         Range(runs[1].requestedOperations) \cap SoftDescriptions = {}

C5_Witness ==
  /\ Called
  /\ Len(runs) = 2
  /\ runs[2].threw
  /\ Result.message # runs[1].message
  /\ Len(runs[1].requestedOperations) = 2

(***************************************************************************)
(* C6 as claimed: when a request needs a soft axis, reprojection and a     *)
(* specific output format, and no service for its collections supports     *)
(* both reprojection and that format, the no-op service is returned and    *)
(* its message names exactly "reprojection and reformatting to <format>".  *)
(* (Read with services for its collections in the catalog.)                *)
(***************************************************************************)
NoServiceReprojectsTo(op) ==
  \A i \in 1..Len(serviceConfigs) :
    ~ /\ SupportsCollections(serviceConfigs[i], op)
      /\ serviceConfigs[i].capabilities.reprojection
      /\ op.outputFormat \in Range(serviceConfigs[i].capabilities.output_formats)

SomeServiceForCollections(op) ==
  \E i \in 1..Len(serviceConfigs) : SupportsCollections(serviceConfigs[i], op)

SomeServiceReprojects(op) ==
  \E i \in 1..Len(serviceConfigs) :
    /\ SupportsCollections(serviceConfigs[i], op)
    /\ serviceConfigs[i].capabilities.reprojection

ReprojectionAndFormatMessage(op) ==
  "the requested combination of operations: reprojection and reformatting to "
    \o op.outputFormat \o " on " \o CollectionText(op) \o " is unsupported"

C6_ReprojectionAndFormatNamed ==
  ( /\ Called
    /\ NeedsSoft(request)
    /\ NeedsCrs(request)
    /\ request.outputFormat # undefined
    /\ SomeServiceForCollections(request)
    /\ NoServiceReprojectsTo(request) ) =>
      /\ serviceConfig = NoOpRef
      /\ Result.message = ReprojectionAndFormatMessage(request)

(***************************************************************************)
(* C6 as amended: when a request needs a soft axis, reprojection and a     *)
(* specific output format but no variable subsetting, some service for its *)
(* collections supports reprojection, and no service for its collections   *)
(* supports both reprojection and that format, the no-op service is        *)
(* returned and its message names exactly "reprojection and reformatting   *)
(* to <format>", without spatial or shapefile subsetting.                  *)
(***************************************************************************)
C6_ReprojectionAndFormatNamedIfReprojectable ==
  ( /\ Called
    /\ NeedsSoft(request)
    /\ NeedsCrs(request)
    /\ request.outputFormat # undefined
    /\ ~NeedsVariable(request)
    /\ SomeServiceReprojects(request)
    /\ NoServiceReprojectsTo(request) ) =>
      /\ serviceConfig = NoOpRef
      /\ Result.name = "noOpService"
      /\ Result.message = ReprojectionAndFormatMessage(request)
      /\ LastRun.requestedOperations =
           <<"reprojection", "reformatting to " \o request.outputFormat>>

C6_Witness ==
  /\ Called
  /\ NeedsBbox(request)
  /\ NeedsCrs(request)
  /\ request.outputFormat = "application/x-netcdf4"
  /\ ~NeedsVariable(request)
  /\ SomeServiceReprojects(request)
  /\ NoServiceReprojectsTo(request)
  /\ Len(serviceConfigs) = 2

(***************************************************************************)
(* C7: after any sequence of calls on a shared catalog every catalog entry *)
(* equals its initial value; a degraded match returns a distinct copy of   *)
(* the matched entry and the entry's message stays unset.                  *)
(***************************************************************************)
C7_CatalogNeverModified ==
  /\ serviceConfigs = loadedConfigs
  /\ \A i \in 1..Len(serviceConfigs) : serviceConfigs[i].message = undefined
  /\ (Called /\ Len(runs) = 2 /\ ~runs[2].threw) =>
       /\ serviceConfig.kind = "clone"
       /\ \E i \in 1..Len(serviceConfigs) :
            Result = [serviceConfigs[i] EXCEPT !.message = bestEffortMessage]

C7_Witness ==
  /\ requests = 2
  /\ Called
  /\ serviceConfig.kind = "clone"
  /\ serviceConfigs = loadedConfigs

(***************************************************************************)
(* C8: for every request, context and catalog, the empty catalog and a     *)
(* catalog without a service for the request's collections included, the   *)
(* call returns a descriptor: a catalog entry, a clone of one, or the      *)
(* descriptor named noOpService with a message.  A run that raised         *)
(* UnsupportedOperation ends in the noOpService descriptor, never in       *)
(* nothing.                                                                *)
(***************************************************************************)
C8_AlwaysReturnsDescriptor ==
  Called =>
    /\ serviceConfig.kind \in {"catalog", "clone", "noOp"}
    /\ serviceConfig.kind = "catalog" =>
         serviceConfig.idx \in 1..Len(serviceConfigs)
    /\ serviceConfig.kind = "noOp" =>
         /\ Result.name = "noOpService"
         /\ Result.message # undefined
    /\ LastRun.threw <=> serviceConfig = NoOpRef
    /\ Supporting(request, context) = {} /\ ~(NeedsSoft(request) /\ NeedsHard(request, context))
         => serviceConfig = NoOpRef

C8_Witness ==
  /\ Called
  /\ serviceConfigs = <<>>
  /\ Len(runs) = 2
  /\ serviceConfig = NoOpRef

(***************************************************************************)
(* C9: on a no-match result the message is "no operations can be performed *)
(* on <collections>" exactly when the requirement log is empty, which is   *)
(* exactly when no catalog service supports all the request's collections; *)
(* otherwise it is "the requested combination of operations: <log> on      *)
(* <collections> is unsupported" with a non-empty log.                     *)
(***************************************************************************)
C9_NoMatchMessageForm ==
  (Called /\ serviceConfig = NoOpRef) =>
    LET log == LastRun.requestedOperations
        noOperations == "no operations can be performed on "
                          \o CollectionText(request)
    IN /\ log = <<>> <=>
            \A i \in 1..Len(serviceConfigs) :
              ~SupportsCollections(serviceConfigs[i], request)
       /\ Result.message = noOperations <=> log = <<>>
       /\ log # <<>> =>
            Result.message =
              "the requested combination of operations: "
                \o listToText(log, "and") \o " on "
                \o CollectionText(request) \o " is unsupported"

C9_Witness ==
  /\ Called
  /\ serviceConfig = NoOpRef
  /\ LastRun.requestedOperations = <<>>
  /\ Len(serviceConfigs) = 2
  /\ NeedsBbox(request)

(***************************************************************************)
(* C10: the requirement log of a run that ends in no match is exactly the  *)
(* descriptions of the axes the request requires among the run's filters,  *)
(* in chain order (variable, spatial, shapefile, reprojection,             *)
(* reformatting), up to and including the first step that left no         *)
(* candidate.                                                              *)
(***************************************************************************)
ChainOrder ==
  << "filterCollectionMatches", "filterVariableSubsettingMatches",
     "filterSpatialSubsettingMatches", "filterShapefileSubsettingMatches",
     "filterReprojectionMatches", "filterOutputFormatMatches" >>

\* does the request require the axis of the step
StepRequired(step, op, ctx) ==
  CASE step = "filterCollectionMatches" -> TRUE
    [] step = "filterVariableSubsettingMatches" -> NeedsVariable(op)
    [] step = "filterSpatialSubsettingMatches" -> NeedsBbox(op)
    [] step = "filterShapefileSubsettingMatches" -> NeedsShape(op)
    [] step = "filterReprojectionMatches" -> NeedsCrs(op)
    [] step = "filterOutputFormatMatches" -> NeedsFormat(op, ctx)

\* does the service meet what the step asks for
StepMet(step, svc, op, ctx) ==
  CASE step = "filterCollectionMatches" -> SupportsCollections(svc, op)
    [] step = "filterVariableSubsettingMatches" -> svc.capabilities.subsetting.variable
    [] step = "filterSpatialSubsettingMatches" -> svc.capabilities.subsetting.bbox
    [] step = "filterShapefileSubsettingMatches" -> svc.capabilities.subsetting.shape
    [] step = "filterReprojectionMatches" -> svc.capabilities.reprojection
    [] step = "filterOutputFormatMatches" -> HasAcceptedFormat(svc, op, ctx)

StepDescription(step, op, ctx) ==
  CASE step = "filterVariableSubsettingMatches" -> "variable subsetting"
    [] step = "filterSpatialSubsettingMatches" -> "spatial subsetting"
    [] step = "filterShapefileSubsettingMatches" -> "shapefile subsetting"
    [] step = "filterReprojectionMatches" -> "reprojection"
    [] step = "filterOutputFormatMatches" ->
         "reformatting to " \o
           (IF op.outputFormat # undefined THEN op.outputFormat
            ELSE listToText(ctx.requestedMimeTypes, "or"))
    [] OTHER -> ""

\* the steps of the chain order that the run applies
StepsOf(run) == SelectSeq(ChainOrder, LAMBDA step : step \in Range(run.filterFns))

\* the services that meet every required step among the first k
CandidatesAfter(steps, k, op, ctx) ==
  { i \in 1..Len(serviceConfigs) :
      \A j \in 1..k :
        StepRequired(steps[j], op, ctx) =>
          StepMet(steps[j], serviceConfigs[i], op, ctx) }

\* the descriptions of the required axes among the first k steps
ExpectedLog(steps, k, op, ctx) ==
  LET logged == SelectSeq(SubSeq(steps, 1, k), LAMBDA step :
                  step # "filterCollectionMatches" /\ StepRequired(step, op, ctx))
  IN [j \in 1..Len(logged) |-> StepDescription(logged[j], op, ctx)]

C10_LogUpToFailingStep ==
  \A r \in 1..Len(runs) :
    runs[r].threw =>
      LET steps == StepsOf(runs[r])
          empty == { k \in 1..Len(steps) :
                       CandidatesAfter(steps, k, request, context) = {} }
      IN /\ empty # {}
         /\ steps[Min(empty)] = runs[r].failedAt
         /\ runs[r].requestedOperations =
              ExpectedLog(steps, Min(empty), request, context)

C10_Witness ==
  /\ Called
  /\ runs[1].threw
  /\ runs[1].failedAt = "filterReprojectionMatches"
  /\ Len(runs[1].requestedOperations) = 3
  /\ NeedsFormat(request, context)
  /\ Len(runs) = 2
  /\ runs[2].threw
  /\ runs[2].requestedOperations = <<"variable subsetting", "reprojection">>

\* the steps that stand for an axis of the request
AxisSteps ==
  { "filterVariableSubsettingMatches", "filterSpatialSubsettingMatches",
    "filterShapefileSubsettingMatches", "filterReprojectionMatches",
    "filterOutputFormatMatches" }

HardSteps ==
  { "filterVariableSubsettingMatches", "filterReprojectionMatches",
    "filterOutputFormatMatches" }

\* no catalog entry at all meets what the step asks for
NoEntryMeets(step, op, ctx) ==
  \A i \in 1..Len(serviceConfigs) : ~StepMet(step, serviceConfigs[i], op, ctx)

\* no catalog entry for the request's collections meets what the step asks
NoCollectionEntryMeets(step, op, ctx) ==
  \A i \in 1..Len(serviceConfigs) :
    SupportsCollections(serviceConfigs[i], op) =>
      ~StepMet(step, serviceConfigs[i], op, ctx)

\* the step's axis is the only axis the request requires
OnlyAxis(step, op, ctx) ==
  \A other \in AxisSteps \ {step} : ~StepRequired(other, op, ctx)

(***************************************************************************)
(* C11 as claimed: for every request requiring an axis that no catalog     *)
(* entry supports, the result is the no-match sentinel and the requirement *)
(* log holds exactly that axis's description.  (Read with services for the *)
(* request's collections in the catalog.)                                  *)
(***************************************************************************)
C11_UnsupportedAxisAloneInLog ==
  Called =>
    \A step \in AxisSteps :
      ( /\ StepRequired(step, request, context)
        /\ SomeServiceForCollections(request)
        /\ NoEntryMeets(step, request, context) ) =>
          /\ serviceConfig = NoOpRef
          /\ LastRun.requestedOperations =
               <<StepDescription(step, request, context)>>

(***************************************************************************)
(* C11 as amended: for a request requiring an axis that no catalog entry   *)
(* for its collections supports (some entry being for its collections),    *)
(* the result is the no-match sentinel if the axis is a hard one or the    *)
(* request requires no hard axis; the log holds exactly that axis's        *)
(* description if it is the only axis the request requires.                *)
(***************************************************************************)
C11_UnsupportedAxisNoMatch ==
  Called =>
    \A step \in AxisSteps :
      ( /\ StepRequired(step, request, context)
        /\ SomeServiceForCollections(request)
        /\ NoCollectionEntryMeets(step, request, context) ) =>
          /\ (step \in HardSteps \/ ~NeedsHard(request, context)) =>
               /\ serviceConfig = NoOpRef
               /\ Result.name = "noOpService"
          /\ OnlyAxis(step, request, context) =>
               /\ serviceConfig = NoOpRef
               /\ LastRun.requestedOperations =
                    <<StepDescription(step, request, context)>>
               /\ Result.message =
                    "the requested combination of operations: "
                      \o StepDescription(step, request, context)
                      \o " on " \o CollectionText(request) \o " is unsupported"

C11_Witness ==
  /\ Called
  /\ NeedsShape(request)
  /\ OnlyAxis("filterShapefileSubsettingMatches", request, context)
  /\ Len(serviceConfigs) = 2
  /\ \A i \in 1..2 : SupportsCollections(serviceConfigs[i], request)
  /\ NoEntryMeets("filterShapefileSubsettingMatches", request, context)
  /\ serviceConfig = NoOpRef
  /\ LastRun.requestedOperations = <<"shapefile subsetting">>

(***************************************************************************)
(* C12: calling chooseServiceConfig again with the same request object     *)
(* (holding any output format the earlier call wrote), the same context    *)
(* and the same catalog returns a service of the same name with the same   *)
(* message, whether the outcome is a strict match, a degraded match or no  *)
(* match.                                                                  *)
(***************************************************************************)
C12_RepeatedCallSameResult ==
  [][ (Called /\ Called' /\ requests' = requests) =>
        /\ context' = context
        /\ serviceConfigs' = serviceConfigs
        /\ Result'.name = Result.name
        /\ Result'.message = Result.message ]_vars

\* image/tiff is not a format a caller sets: a request that holds it when
\* the call receives it had it written by an earlier call
C12_Witness ==
  /\ Called
  /\ request.outputFormat = "image/tiff"
  /\ context.requestedMimeTypes = <<"image/*">>
  /\ serviceConfig.kind = "clone"
  /\ Result.message = bestEffortMessage

(***************************************************************************)
(* C13: a chooseServiceConfig call changes no state that outlives the call *)
(* other than the request's output format: each run starts its requirement *)
(* log empty (no entry of an earlier run is carried over), the catalog is  *)
(* left as it was, and so is every module-level object, the no-match       *)
(* sentinel descriptor included.  (Read with a catalog that holds          *)
(* services.)                                                              *)
(***************************************************************************)
C13_CallChangesOnlyOutputFormat ==
  [][ (Called' /\ serviceConfigs # <<>>) =>
        /\ noOpService' = noOpService
        /\ serviceConfigs' = serviceConfigs
        /\ [operation' EXCEPT !.outputFormat = undefined]
             = [operation EXCEPT !.outputFormat = undefined]
        /\ \A r \in 1..Len(runs') :
             /\ Len(runs'[r].requestedOperations)
                  = Cardinality(Range(runs'[r].requestedOperations))
             /\ runs'[r].filterFns = requiredFilterFns =>
                  Range(runs'[r].requestedOperations) \cap SoftDescriptions = {} ]_vars

\* positions of the catalog entries that survive every filter of the run
\* before the output-format filter
Survivors(run, op, ctx) ==
  CandidatesAfter(StepsOf(run), Len(StepsOf(run)) - 1, op, ctx)

\* the survivors that declare a format the pattern accepts
Accepting(pattern, run, op, ctx) ==
  { i \in Survivors(run, op, ctx) :
      \E f \in Range(serviceConfigs[i].capabilities.output_formats) :
        isMimeTypeAccepted(f, pattern) }

\* positions in the accept list of the patterns some survivor has a format for
Winners(run, op, ctx) ==
  { k \in 1..Len(ctx.requestedMimeTypes) :
      Accepting(ctx.requestedMimeTypes[k], run, op, ctx) # {} }

\* the first format of the list that the pattern accepts
FirstAccepted(formats, pattern) ==
  formats[Min({ k \in 1..Len(formats) : isMimeTypeAccepted(formats[k], pattern) })]

(***************************************************************************)
(* C14: for a request without an explicit output format, in a run that     *)
(* ends in a match, the patterns of the accept list are tried in the order *)
(* given: the winning pattern is the first one for which some surviving    *)
(* candidate has an accepted format, the chosen service is the first       *)
(* surviving candidate in catalog order with a format that pattern         *)
(* accepts, and the resolved format is the first such format in that       *)
(* service's own list.                                                     *)
(***************************************************************************)
C14_PreferenceThenCatalogOrder ==
  ( /\ Called
    /\ request.outputFormat = undefined
    /\ ~LastRun.threw
    /\ Winners(LastRun, request, context) # {} ) =>
      LET pattern ==
            context.requestedMimeTypes[Min(Winners(LastRun, request, context))]
          first == Min(Accepting(pattern, LastRun, request, context))
      IN /\ serviceConfig.kind \in {"catalog", "clone"}
         /\ Result.name = serviceConfigs[first].name
         /\ serviceConfig.kind = "catalog" => serviceConfig.idx = first
         /\ operation.outputFormat =
              FirstAccepted(serviceConfigs[first].capabilities.output_formats,
                            pattern)

\* the first pattern is met only by the second catalog entry, which is
\* chosen although the first entry has a format the second pattern accepts
C14_Witness ==
  /\ Called
  /\ request.outputFormat = undefined
  /\ Len(context.requestedMimeTypes) = 2
  /\ Winners(LastRun, request, context) = {1, 2}
  /\ Accepting(context.requestedMimeTypes[1], LastRun, request, context) = {2}
  /\ 1 \in Accepting(context.requestedMimeTypes[2], LastRun, request, context)
  /\ serviceConfig = CatalogRef(2)
  /\ operation.outputFormat = "application/x-netcdf4"

\* the run applied the output-format filter
ReachedFormatFilter(run) ==
  ~run.threw \/ run.failedAt = "filterOutputFormatMatches"

(***************************************************************************)
(* C15: requiresReformatting is true if and only if the request has an     *)
(* explicit output format, or the accept list is non-empty and holds no    *)
(* accept-anything pattern; without an explicit format an empty list makes *)
(* it false, and so does one accept-anything pattern anywhere in the list. *)
(* A run that reaches the output-format filter logs the reformatting       *)
(* requirement exactly in that case.                                       *)
(***************************************************************************)
C15_ReformattingIffExplicitOrNoWildcard ==
  Called =>
    LET list == context.requestedMimeTypes
        expected ==
          \/ request.outputFormat # undefined
          \/ /\ Len(list) > 0
             /\ \A k \in 1..Len(list) : list[k] # "*/*"
    IN /\ requiresReformatting(request, context) <=> expected
       /\ (request.outputFormat = undefined /\ list = <<>>) =>
            ~requiresReformatting(request, context)
       /\ (request.outputFormat = undefined /\ \E k \in 1..Len(list) : list[k] = "*/*") =>
            ~requiresReformatting(request, context)
       /\ \A r \in 1..Len(runs) :
            ReachedFormatFilter(runs[r]) =>
              ( expected <=>
                  StepDescription("filterOutputFormatMatches", request, context)
                    \in Range(runs[r].requestedOperations) )

\* the accept-anything pattern comes second in the list
C15_Witness ==
  /\ Called
  /\ request.outputFormat = undefined
  /\ context.requestedMimeTypes = <<"application/x-netcdf4", "*/*">>
  /\ ~requiresReformatting(request, context)
  /\ ~runs[1].threw
  /\ runs[1].requestedOperations = <<"spatial subsetting">>
  /\ operation.outputFormat = "image/tiff"

\* the survivors as the candidate list the output-format filter receives
SurvivorList(run, op, ctx) ==
  SelectSeq([i \in 1..Len(serviceConfigs) |-> i],
            LAMBDA i : i \in Survivors(run, op, ctx))

\* the output-format filter returns the list it was given
FormatStepLeavesList(run, op, ctx) ==
  filterOutputFormatMatches(op, ctx, SurvivorList(run, op, ctx), <<>>)
    = [ threw |-> FALSE,
        matches |-> SurvivorList(run, op, ctx),
        requestedOperations |-> <<>> ]

(***************************************************************************)
(* C16 as claimed: when the request does not require reformatting (no      *)
(* explicit output format, and an accept list that is empty or holds an    *)
(* accept-anything pattern), the output-format step leaves the candidate   *)
(* list unchanged and a successful run returns the first service, in       *)
(* catalog order, that survived the filters before it, whatever output     *)
(* formats that service declares.                                          *)
(***************************************************************************)
C16_FirstSurvivorWhateverFormats ==
  ( /\ Called
    /\ ~NeedsFormat(request, context)
    /\ ~LastRun.threw ) =>
      /\ FormatStepLeavesList(LastRun, request, context)
      /\ Result.name =
           serviceConfigs[Min(Survivors(LastRun, request, context))].name

(***************************************************************************)
(* C16 as amended: when the request does not require reformatting, the     *)
(* output-format step leaves the candidate list unchanged; a successful    *)
(* run returns the first survivor in catalog order if the accept list is   *)
(* empty or no survivor declares a format the list accepts, and otherwise  *)
(* the first survivor declaring a format accepted by the first pattern of  *)
(* the list that some survivor has a format for.                           *)
(***************************************************************************)
C16_FirstSurvivorForResolvedFormat ==
  ( /\ Called
    /\ ~NeedsFormat(request, context)
    /\ ~LastRun.threw ) =>
      LET survivors == Survivors(LastRun, request, context)
          winners == Winners(LastRun, request, context)
          pattern == context.requestedMimeTypes[Min(winners)]
      IN /\ FormatStepLeavesList(LastRun, request, context)
         /\ survivors # {}
         /\ context.requestedMimeTypes = <<>> => winners = {}
         /\ winners = {} =>
              /\ Result.name = serviceConfigs[Min(survivors)].name
              /\ operation.outputFormat = undefined
         /\ winners # {} =>
              /\ Result.name =
                   serviceConfigs[Min(Accepting(pattern, LastRun, request, context))].name
              /\ operation.outputFormat # undefined

\* the first survivor is passed over for the second one
C16_Witness ==
  /\ Called
  /\ ~NeedsFormat(request, context)
  /\ context.requestedMimeTypes = <<"application/x-netcdf4", "*/*">>
  /\ Survivors(LastRun, request, context) = {1, 2}
  /\ serviceConfig = CatalogRef(2)
  /\ NeedsBbox(request)

(***************************************************************************)
(* C17: the output-format filter is the last filter of the strict and of   *)
(* the reduced chain, so the format is resolved among the services that    *)
(* survived the filters before it: a run ends in a match, on one of those  *)
(* survivors, whenever some survivor declares a format the request         *)
(* accepts, even if a pattern earlier in the accept list is met only by    *)
(* services the earlier filters eliminated.                                *)
(***************************************************************************)
C17_FormatResolvedAmongSurvivors ==
  \A r \in 1..Len(runs) :
    /\ runs[r].filterFns[Len(runs[r].filterFns)] = "filterOutputFormatMatches"
    /\ ( \E i \in Survivors(runs[r], request, context) :
           HasAcceptedFormat(serviceConfigs[i], request, context) ) =>
         /\ ~runs[r].threw
         /\ r = Len(runs)
         /\ \E i \in Survivors(runs[r], request, context) :
              /\ Result.name = serviceConfigs[i].name
              /\ HasAcceptedFormat(serviceConfigs[i], request, context)

\* the first pattern is met only by a service the spatial filter eliminated
C17_Witness ==
  /\ Called
  /\ request.outputFormat = undefined
  /\ NeedsBbox(request)
  /\ Len(context.requestedMimeTypes) = 2
  /\ Winners(runs[1], request, context) = {2}
  /\ \E i \in 1..Len(serviceConfigs) :
       /\ i \notin Survivors(runs[1], request, context)
       /\ SupportsCollections(serviceConfigs[i], request)
       /\ \E f \in Range(serviceConfigs[i].capabilities.output_formats) :
            isMimeTypeAccepted(f, context.requestedMimeTypes[1])
  /\ serviceConfig.kind = "catalog"

RegisteredTypes == {"http", "argo", "noOp"}

(***************************************************************************)
(* C18: buildService returns a service of the class keyed by the           *)
(* descriptor's type name (http: HttpService, argo: ArgoService, noOp:     *)
(* NoOpService), built on the given descriptor and operation, and throws   *)
(* NotFoundError for any other type name; every descriptor returned for a  *)
(* catalog whose entries all have type http or argo, the no-match sentinel *)
(* and degraded clones included, builds without error.                     *)
(***************************************************************************)
C18_ServiceClassByTypeName ==
  service # NoService =>
    /\ Called
    /\ Result.type.name = "http" =>
         service.kind = "service" /\ service.class = "HttpService"
    /\ Result.type.name = "argo" =>
         service.kind = "service" /\ service.class = "ArgoService"
    /\ Result.type.name = "noOp" =>
         service.kind = "service" /\ service.class = "NoOpService"
    /\ Result.type.name \notin RegisteredTypes <=> service.kind = "NotFoundError"
    /\ service.kind = "service" =>
         /\ service.config = Result
         /\ service.operation = operation
    /\ (\A i \in 1..Len(serviceConfigs) :
          serviceConfigs[i].type.name \in {"http", "argo"}) =>
         service.kind = "service"

\* a degraded clone of an http service is built
C18_Witness ==
  /\ service.kind = "service"
  /\ service.class = "HttpService"
  /\ serviceConfig.kind = "clone"
  /\ service.config.message = bestEffortMessage
  /\ service.operation.outputFormat = "image/png"

\* sub is an order-preserving sub-list of list (both hold catalog positions
\* in increasing order)
IsSubList(sub, list) ==
  /\ Range(sub) \subseteq Range(list)
  /\ \A j, k \in 1..Len(sub) : j < k => sub[j] < sub[k]

\* from the k-th filter of the chain on, each step given the list the step
\* before left returns a non-empty order-preserving sub-list of it or raises
RECURSIVE StepsKeepSubLists(_, _, _, _, _)
StepsKeepSubLists(filterFns, k, op, ctx, list) ==
  k <= Len(filterFns) =>
    \A r \in {ApplyFilterFn(filterFns[k], op, ctx, list, <<>>)} :
      /\ IsSubList(r.matches, list)
      /\ r.threw <=> r.matches = <<>>
      /\ ~r.threw => StepsKeepSubLists(filterFns, k + 1, op, ctx, r.matches)

(***************************************************************************)
(* C19: the candidate list stays a non-empty, order-preserving sub-list of *)
(* the catalog throughout a chain run: each filter step of the strict and  *)
(* of the reduced chain either returns a non-empty order-preserving        *)
(* sub-list of the list it is given or raises UnsupportedOperation; the    *)
(* format narrowing after the chain never leaves the list empty, so the    *)
(* service taken as its first element is always defined.                   *)
(***************************************************************************)
C19_CandidatesNeverSilentlyEmpty ==
  Called =>
    /\ \A r \in 1..Len(runs) :
         StepsKeepSubLists(runs[r].filterFns, 1, request, context,
                           [i \in 1..Len(serviceConfigs) |-> i])
    /\ \A r \in 1..Len(runs) :
         /\ runs[r].threw <=> runs[r].matches = <<>>
         /\ IsSubList(runs[r].matches, [i \in 1..Len(serviceConfigs) |-> i])
    /\ ~LastRun.threw =>
         /\ serviceConfig.kind \in {"catalog", "clone"}
         /\ Result.name = serviceConfigs[LastRun.matches[1]].name

\* the narrowing after the chain drops the first candidate and keeps one
C19_Witness ==
  /\ Called
  /\ ~LastRun.threw
  /\ context.requestedMimeTypes = <<"*/*">>
  /\ request.outputFormat = undefined
  /\ Len(serviceConfigs) = 2
  /\ LastRun.matches = <<2>>
  /\ Len(LastRun.requestedOperations) = 0

(***************************************************************************)
(* C20: the message of a no-match result returned for one request is still *)
(* the message it was returned with after chooseServiceConfig has been     *)
(* called for a later, different request that also ends in no match: the   *)
(* results of different requests share no mutable state.  (Read with a     *)
(* catalog that holds services.)                                           *)
(***************************************************************************)
C20_HeldNoMatchMessageKept ==
  ( /\ held.serviceConfig = NoOpRef
    /\ serviceConfigs # <<>>
    /\ Called
    /\ serviceConfig = NoOpRef ) =>
      DerefIn(held.serviceConfig, serviceConfigs, noOpService).message
        = held.message

(***************************************************************************)
(* C22: after a chooseServiceConfig call that returns a catalog service or *)
(* a degraded clone, an outputFormat set on the request, by the caller or  *)
(* by the resolution during the call, is one of the output_formats of the  *)
(* returned service; in particular the value the resolution writes is a    *)
(* format the returned service declares.                                   *)
(***************************************************************************)
C22_OutputFormatDeclaredByResult ==
  (Called /\ serviceConfig.kind \in {"catalog", "clone"}) =>
    /\ operation.outputFormat # undefined =>
         operation.outputFormat \in Range(Result.capabilities.output_formats)
    /\ request.outputFormat # undefined =>
         operation.outputFormat = request.outputFormat

\* the resolution wrote the format of a degraded clone from the second
\* pattern of the accept list
C22_Witness ==
  /\ Called
  /\ serviceConfig.kind = "clone"
  /\ request.outputFormat = undefined
  /\ Len(context.requestedMimeTypes) = 2
  /\ ~isMimeTypeAccepted(operation.outputFormat, context.requestedMimeTypes[1])
  /\ operation.outputFormat \in Range(Result.capabilities.output_formats)

(***************************************************************************)
(* C23: a chain run that ends in no match does not modify the request.     *)
(* When chooseServiceConfig returns the no-match sentinel the request's    *)
(* outputFormat, like its other fields, is as it was before the call; and  *)
(* the reduced run, and the policy check that led to it, were given the    *)
(* request as the strict run was given it.                                 *)
(***************************************************************************)
C23_NoMatchRunLeavesRequest ==
  Called =>
    /\ \A r \in 1..Len(runs) : runs[r].seen = request
    /\ Len(runs) = 2 =>
         /\ runs[1].threw
         /\ ~requiresStrictCapabilitiesMatching(request, context)
    /\ serviceConfig = NoOpRef =>
         /\ operation.outputFormat = request.outputFormat
         /\ operation = request

\* both runs ended in no match although the accept list alone would have
\* resolved a format on the catalog
C23_Witness ==
  /\ Called
  /\ serviceConfig = NoOpRef
  /\ Len(runs) = 2
  /\ runs[2].threw
  /\ request.outputFormat = undefined
  /\ selectFormat(request, context,
                  [i \in 1..Len(serviceConfigs) |-> i]) # undefined
  /\ operation = request

(***************************************************************************)
(* Vocabulary of the granule locator properties.                           *)
(***************************************************************************)
\* cmrGranuleLocator has returned
Returned == pc = "returned"

\* the argument of a call of next is an error
IsError(arg) == arg.kind \in {"thrown", "created"}

\* the error object an argument of next is
ErrorOf(arg) ==
  IF arg.kind = "thrown" THEN queries[arg.query].reason ELSE arg.error

\* the sum of f[i] over i in 1..n
RECURSIVE SumTo(_, _)
SumTo(f, n) == IF n = 0 THEN 0 ELSE f[n] + SumTo(f, n - 1)

(***************************************************************************)
(* C21: cmrGranuleLocator calls next exactly once for every request: it    *)
(* never calls it a second time, and when it has returned it has called it *)
(* once, with no argument when the request has no operation or every query *)
(* succeeded, and with one error when a query failed, whatever the         *)
(* failure.                                                                *)
(***************************************************************************)
C21_NextCalledExactlyOnce ==
  /\ Len(nextCalls) <= 1
  /\ Returned =>
       /\ Len(nextCalls) = 1
       /\ nextCalls[1] = NoArgument <=>
            (req.operation = Missing \/ allQueries.state = "fulfilled")
       /\ IsError(nextCalls[1]) <=> allQueries.state = "rejected"

(***************************************************************************)
(* C24: under every order in which the per-source queries complete, each   *)
(* source gets the granules, and adds the hit count, of the response to    *)
(* the query on its own collection, never those of the response to another *)
(* source's query, although every callback assigns the one cmrResponse     *)
(* variable.                                                               *)
(***************************************************************************)
C24_SourceGetsOwnResponse ==
  \A i \in 1..Len(queries) :
    /\ queries[i].collection = req.operation.sources[i].collection
    /\ queries[i].response # Missing =>
         /\ queries[i].response \in CmrResponses(queries[i].collection)
         /\ queries[i].hits = queries[i].response.hits
         /\ queries[i].state = "fulfilled" <=>
              Len(granulesOf(queries[i].response.granules, 1)) > 0
    /\ queries[i].state = "fulfilled" =>
         /\ req.operation.sources[i].granules =
              granulesOf(queries[i].response.granules, 1)
         /\ \A k \in 1..Len(req.operation.sources[i].granules) :
              req.operation.sources[i].granules[k].id[1] =
                req.operation.sources[i].collection
    /\ queries[i].state # "fulfilled" => req.operation.sources[i].granules = <<>>

\* two sources on different collections whose queries completed in the
\* reverse of the order they were issued in, with different responses
C24_Witness ==
  /\ Len(queries) = 2
  /\ queries[1].state = "fulfilled"
  /\ queries[2].state = "fulfilled"
  /\ queries[1].collection # queries[2].collection
  /\ queries[1].response.hits # queries[2].response.hits
  /\ cmrResponse = queries[1].response
  /\ Len(req.operation.sources[2].granules) > 0

(***************************************************************************)
(* C25: when cmrGranuleLocator completes without error, operation.cmrHits  *)
(* is the sum of the hit counts of the responses to all per-source         *)
(* queries, in whatever order the queries completed; and at any moment it  *)
(* is the sum over the queries answered so far, so no update is lost.      *)
(***************************************************************************)
C25_CmrHitsIsSumOfHits ==
  /\ (Returned /\ req.operation # Missing /\ nextCalls = <<NoArgument>>) =>
       /\ \A i \in 1..Len(queries) : queries[i].response # Missing
       /\ req.operation.cmrHits =
            SumTo([i \in 1..Len(queries) |-> queries[i].response.hits],
                  Len(queries))
  /\ pc # "notCalled" /\ req.operation # Missing =>
       req.operation.cmrHits =
         SumTo([i \in 1..Len(queries) |->
                  IF queries[i].response = Missing THEN 0
                  ELSE queries[i].response.hits],
               Len(queries))

\* two sources, both answered with a positive hit count, the second first
C25_Witness ==
  /\ Returned
  /\ nextCalls = <<NoArgument>>
  /\ Len(queries) = 2
  /\ queries[1].response.hits = 2
  /\ queries[2].response.hits = 1
  /\ cmrResponse = queries[1].response
  /\ req.operation.cmrHits = 3

(***************************************************************************)
(* C26: once cmrGranuleLocator has passed an error to next, the operation  *)
(* of the request is no longer modified: no query that completes later     *)
(* changes operation.cmrHits or attaches granules to a source.             *)
(***************************************************************************)
C26_OperationFrozenAfterError ==
  [][ (\E k \in 1..Len(nextCalls) : IsError(nextCalls[k])) =>
        req'.operation = req.operation ]_vars

\* the response holds no granule with a data link that is not inherited
NoOwnDataLink(response) ==
  \A k \in 1..Len(response.granules) :
    \A j \in 1..Len(response.granules[k].links) :
      ~(/\ response.granules[k].links[j].rel = DataRel
        /\ ~response.granules[k].links[j].inherited)

(***************************************************************************)
(* C27: a source whose query returns no granule with a non-inherited data  *)
(* link produces a RequestValidationError 'No matching granules found.';   *)
(* a RequestValidationError or CmrError raised during the queries is       *)
(* passed to next as that same error object; any other failure is passed   *)
(* to next as a new ServerError 'Failed to query the CMR' that carries     *)
(* nothing of the original error.                                          *)
(***************************************************************************)
C27_ErrorsPassedToNext ==
  /\ \A i \in 1..Len(queries) :
       queries[i].response # Missing =>
         IF NoOwnDataLink(queries[i].response)
         THEN /\ queries[i].state = "rejected"
              /\ queries[i].reason =
                   RequestValidationError(<<"No matching granules found.">>)
         ELSE queries[i].state = "fulfilled"
  /\ (Returned /\ allQueries.state = "rejected") =>
       \A e \in {queries[allQueries.reason].reason} :
         /\ Len(nextCalls) >= 1
         /\ IF e.class \in {"RequestValidationError", "CmrError"}
            THEN nextCalls[1] = Thrown(allQueries.reason)
            ELSE /\ nextCalls[1] =
                      Created(ServerError(<<"Failed to query the CMR">>))
                 /\ ErrorOf(nextCalls[1]).message # e.message
                 /\ \A k \in 1..Len(nextCalls) : nextCalls[k].kind # "thrown"

\* the CmrError about the GeoJSON of a shapefile request was passed to next
\* after another source's query had failed with a plain Error
C27_Witness ==
  /\ Returned
  /\ Len(queries) = 2
  /\ allQueries = [state |-> "rejected", reason |-> 1]
  /\ queries[1].reason.class = "CmrError"
  /\ queries[1].reason.message[1] = "ESRI Shapefile"
  /\ queries[1].reason.message[3] = "GeoJSON"
  /\ queries[2].state = "rejected"
  /\ queries[2].reason.class = "Error"
  /\ nextCalls = <<Thrown(1)>>

====
